---------------------------- MODULE Spec2Model ----------------------------
(***************************************************************************)
(* A model of src/src/script.js: the WebGL triangle viewer with a zoom     *)
(* slider.  The script is modelled statement by statement (pc holds the    *)
(* source line about to run); JavaScript's run-to-completion rule is kept  *)
(* by letting a slider event be dispatched only when no script is running. *)
(*                                                                         *)
(* JavaScript numbers are modelled as signed rationals with the IEEE-754   *)
(* special values: signed zero, +/-Infinity and NaN.  Mantissa rounding is *)
(* not modelled; the exponent range is, scaled down: a finite result whose *)
(* magnitude exceeds MaxDouble overflows to Infinity and a nonzero one     *)
(* below 1/MaxDouble underflows to zero (MaxFloat32 likewise for the       *)
(* Float32Array the matrices are stored in).                               *)
(***************************************************************************)
EXTENDS Integers, Sequences, FiniteSets, TLC

\* Scaled-down stand-ins for Number.MAX_VALUE and the largest float32.
MaxDouble == 1000
MaxFloat32 == 40
\* The number of slider input events a behaviour may dispatch.
MaxEvents == 2

--------------------------------------------------------------------------
(* IEEE-754 arithmetic as the script's operators +, -, *, /, ** 2, sqrt.   *)

RECURSIVE Gcd(_, _)
Gcd(a, b) == IF b = 0 THEN a ELSE Gcd(b, a % b)

NaN == [k |-> "nan", s |-> 1, n |-> 0, d |-> 0]
Inf(s) == [k |-> "inf", s |-> s, n |-> 1, d |-> 0]
Zero(s) == [k |-> "fin", s |-> s, n |-> 0, d |-> 1]
\* The let-bound zoom before its declaration has run.
Undefined == [k |-> "undef", s |-> 1, n |-> 0, d |-> 0]

\* The double of sign s and magnitude n/d, in lowest terms, after overflow
\* and underflow.
Fin(s, n, d) ==
    IF n > MaxDouble * d THEN Inf(s)
    ELSE IF n > 0 /\ n * MaxDouble < d THEN Zero(s)
    ELSE LET g == Gcd(n, d) IN [k |-> "fin", s |-> s, n |-> n \div g, d |-> d \div g]

\* An integer literal of the source.
Lit(i) == IF i < 0 THEN Fin(-1, -i, 1) ELSE Fin(1, i, 1)

IsNaN(x) == x.k = "nan"
IsFinite(x) == x.k = "fin"
IsZero(x) == x.k = "fin" /\ x.n = 0

\* JavaScript's == on numbers: NaN equals nothing, -0 equals +0.
NumEq(x, y) ==
    /\ ~IsNaN(x) /\ ~IsNaN(y)
    /\ \/ IsZero(x) /\ IsZero(y)
       \/ x = y

Neg(x) == IF IsNaN(x) THEN NaN ELSE [x EXCEPT !.s = -x.s]

Mul(x, y) ==
    IF IsNaN(x) \/ IsNaN(y) THEN NaN
    ELSE IF x.k = "inf" \/ y.k = "inf"
         THEN IF IsZero(x) \/ IsZero(y) THEN NaN ELSE Inf(x.s * y.s)
    ELSE Fin(x.s * y.s, x.n * y.n, x.d * y.d)

Div(x, y) ==
    IF IsNaN(x) \/ IsNaN(y) THEN NaN
    ELSE IF x.k = "inf" THEN (IF y.k = "inf" THEN NaN ELSE Inf(x.s * y.s))
    ELSE IF y.k = "inf" THEN Zero(x.s * y.s)
    ELSE IF IsZero(y) THEN (IF IsZero(x) THEN NaN ELSE Inf(x.s * y.s))
    ELSE Fin(x.s * y.s, x.n * y.d, x.d * y.n)

Add(x, y) ==
    IF IsNaN(x) \/ IsNaN(y) THEN NaN
    ELSE IF x.k = "inf" THEN (IF y.k = "inf" /\ y.s # x.s THEN NaN ELSE x)
    ELSE IF y.k = "inf" THEN y
    ELSE LET a == x.s * x.n * y.d
             b == y.s * y.n * x.d
             t == a + b
         IN  IF t = 0
             THEN (IF x.s = -1 /\ y.s = -1 THEN Zero(-1) ELSE Zero(1))
             ELSE IF t < 0 THEN Fin(-1, -t, x.d * y.d) ELSE Fin(1, t, x.d * y.d)

Sub(x, y) == Add(x, Neg(y))

\* The integer square root of a perfect square.
ISqrt(m) == CHOOSE r \in 0..m : r * r = m

\* Math.sqrt, exact on the squares of rationals (the only arguments the
\* script's normalize passes for the axis-aligned camera).
Sqrt(x) ==
    IF IsNaN(x) THEN NaN
    ELSE IF IsZero(x) THEN x
    ELSE IF x.s = -1 THEN NaN
    ELSE IF x.k = "inf" THEN x
    ELSE Fin(1, ISqrt(x.n), ISqrt(x.d))

\* A value stored into a Float32Array: the float32 exponent range is
\* narrower than the double's.
ToFloat32(x) ==
    IF ~IsFinite(x) THEN x
    ELSE IF x.n > MaxFloat32 * x.d THEN Inf(x.s)
    ELSE IF x.n > 0 /\ x.n * MaxFloat32 < x.d THEN Zero(x.s)
    ELSE x

Float32Array(seq) == [i \in 1..Len(seq) |-> ToFloat32(seq[i])]

--------------------------------------------------------------------------
(* Vector math helpers, script.js lines 115-134.                          *)

\* normalize without the division by the length.
normalizeNoDivide(v) == [i \in 1..Len(v) |-> v[i]]

normalize(v) ==
    LET len == Sqrt(Add(Add(Mul(v[1], v[1]), Mul(v[2], v[2])), Mul(v[3], v[3])))
    IN  [i \in 1..Len(v) |-> Div(v[i], len)]

subtract(a, b) == <<Sub(a[1], b[1]), Sub(a[2], b[2]), Sub(a[3], b[3])>>

\* cross with its operands exchanged.
crossSwapped(a, b) ==
    << Sub(Mul(b[2], a[3]), Mul(b[3], a[2])),
       Sub(Mul(b[3], a[1]), Mul(b[1], a[3])),
       Sub(Mul(b[1], a[2]), Mul(b[2], a[1])) >>

cross(a, b) ==
    << Sub(Mul(a[2], b[3]), Mul(a[3], b[2])),
       Sub(Mul(a[3], b[1]), Mul(a[1], b[3])),
       Sub(Mul(a[1], b[2]), Mul(a[2], b[1])) >>

dot(a, b) == Add(Add(Mul(a[1], b[1]), Mul(a[2], b[2])), Mul(a[3], b[3]))

(* Matrix builders, script.js lines 92-112; 16 entries, column-major.     *)

lookAt(e, a, u) ==
    LET zAxis == normalize(subtract(e, a))
        xAxis == normalize(cross(u, zAxis))
        yAxis == cross(zAxis, xAxis)
    IN  Float32Array(<<
            xAxis[1], yAxis[1], zAxis[1], Lit(0),
            xAxis[2], yAxis[2], zAxis[2], Lit(0),
            xAxis[3], yAxis[3], zAxis[3], Lit(0),
            Neg(dot(xAxis, e)), Neg(dot(yAxis, e)), Neg(dot(zAxis, e)), Lit(1) >>)

\* ortho with 2 / (far - near) in place of -2 / (far - near).
orthoSameSignZ(left, right, bottom, top, near, far) ==
    Float32Array(<<
        Div(Lit(2), Sub(right, left)), Lit(0), Lit(0), Lit(0),
        Lit(0), Div(Lit(2), Sub(top, bottom)), Lit(0), Lit(0),
        Lit(0), Lit(0), Div(Lit(2), Sub(far, near)), Lit(0),
        Div(Neg(Add(right, left)), Sub(right, left)),
        Div(Neg(Add(top, bottom)), Sub(top, bottom)),
        Div(Neg(Add(far, near)), Sub(far, near)), Lit(1) >>)

ortho(left, right, bottom, top, near, far) ==
    Float32Array(<<
        Div(Lit(2), Sub(right, left)), Lit(0), Lit(0), Lit(0),
        Lit(0), Div(Lit(2), Sub(top, bottom)), Lit(0), Lit(0),
        Lit(0), Lit(0), Div(Lit(-2), Sub(far, near)), Lit(0),
        Div(Neg(Add(right, left)), Sub(right, left)),
        Div(Neg(Add(top, bottom)), Sub(top, bottom)),
        Div(Neg(Add(far, near)), Sub(far, near)), Lit(1) >>)

--------------------------------------------------------------------------
(* parseFloat, as line 167 applies it to event.target.value.  A string is  *)
(* a sequence of one-character strings.                                    *)

IsDigit(c) == c \in {"0", "1", "2", "3", "4", "5", "6", "7", "8", "9"}

DigitVal(c) ==
    CASE c = "0" -> 0 [] c = "1" -> 1 [] c = "2" -> 2 [] c = "3" -> 3
      [] c = "4" -> 4 [] c = "5" -> 5 [] c = "6" -> 6 [] c = "7" -> 7
      [] c = "8" -> 8 [] c = "9" -> 9

RECURSIVE LeadingDigits(_)
LeadingDigits(str) ==
    IF str # <<>> /\ IsDigit(Head(str)) THEN 1 + LeadingDigits(Tail(str)) ELSE 0

RECURSIVE DigitsValue(_)
DigitsValue(str) ==
    IF str = <<>> THEN 0
    ELSE DigitsValue(SubSeq(str, 1, Len(str) - 1)) * 10 + DigitVal(str[Len(str)])

RECURSIVE Pow10(_)
Pow10(e) == IF e = 0 THEN 1 ELSE 10 * Pow10(e - 1)

RECURSIVE TrimStart(_)
TrimStart(str) ==
    IF str # <<>> /\ Head(str) = " " THEN TrimStart(Tail(str)) ELSE str

Drop(str, count) == SubSeq(str, count + 1, Len(str))

StartsWith(str, prefix) ==
    Len(str) >= Len(prefix) /\ SubSeq(str, 1, Len(prefix)) = prefix

\* The longest prefix that is a decimal literal, after leading white space;
\* NaN when there is none.
parseFloat(str) ==
    LET t == TrimStart(str)
        hasSign == t # <<>> /\ Head(t) \in {"+", "-"}
        sgn == IF t # <<>> /\ Head(t) = "-" THEN -1 ELSE 1
        u == IF hasSign THEN Tail(t) ELSE t
        ni == LeadingDigits(u)
        afterInt == Drop(u, ni)
        hasDot == afterInt # <<>> /\ Head(afterInt) = "."
        nf == IF hasDot THEN LeadingDigits(Tail(afterInt)) ELSE 0
        afterFrac == IF hasDot THEN Drop(afterInt, 1 + nf) ELSE afterInt
        mantissa == DigitsValue(SubSeq(u, 1, ni) \o SubSeq(afterInt, 2, 1 + nf))
        hasE == afterFrac # <<>> /\ Head(afterFrac) \in {"e", "E"}
        e1 == Tail(afterFrac)
        eSigned == e1 # <<>> /\ Head(e1) \in {"+", "-"}
        esgn == IF e1 # <<>> /\ Head(e1) = "-" THEN -1 ELSE 1
        e2 == IF eSigned THEN Tail(e1) ELSE e1
        ne == IF hasE THEN LeadingDigits(e2) ELSE 0
        exponent == (IF ne > 0 THEN esgn * DigitsValue(SubSeq(e2, 1, ne)) ELSE 0) - nf
    IN  IF StartsWith(u, <<"I", "n", "f", "i", "n", "i", "t", "y">>) THEN Inf(sgn)
        ELSE IF ni = 0 /\ nf = 0 THEN NaN
        ELSE IF exponent >= 0 THEN Fin(sgn, mantissa * Pow10(exponent), 1)
        ELSE Fin(sgn, mantissa, Pow10(-exponent))

\* The strings event.target.value takes in the model.
SliderValues ==
    { <<"5">>, <<"0">>, <<"-", "0">>, <<"-", "3">>, <<"0", ".", "5">>,
      <<"5", "0">>, <<"0", ".", "0", "2">>, <<"2", "e", "1">>,
      <<" ", "7", "p", "x">>, <<"a", "b", "c">>,
      <<"I", "n", "f", "i", "n", "i", "t", "y">> }

--------------------------------------------------------------------------
(* The script's state.                                                     *)

VARIABLES
    pc,                 \* the line about to run; "idle": the script ran to its
                        \* end; "halted": an uncaught exception ended it
    gl,                 \* line 3: "unset", "null" or "context"
    alerted,            \* line 6 has called alert
    errors,             \* console.error calls (lines 38, 52)
    vertexShader,       \* line 59: "unset", "null" or "shader"
    fragmentShader,     \* line 60
    program,            \* line 61: "unset", "null" or "program"
    bufferUploaded,     \* line 75 has called bufferData
    handlerInstalled,   \* line 166 has assigned oninput
    zoom, eye, at, up,  \* lines 137-140
    value,              \* event.target.value of the event being handled
    modelViewMatrix,    \* render's local, line 148
    projectionMatrix,   \* render's local, line 151
    orthoArgs,          \* the arguments of render's last call of ortho
    sentModelView,      \* the matrix last passed to uniformMatrix4fv, line 158
    sentProjection,     \* the matrix last passed to uniformMatrix4fv, line 159
    clears,             \* gl.clear calls
    uploads,            \* gl.uniformMatrix4fv calls
    draws,              \* gl.drawArrays calls
    events,             \* slider input events dispatched
    call, ret           \* a direct call of a matrix builder, and its result

camera == <<zoom, eye, at, up>>
setup == <<gl, alerted, errors, vertexShader, fragmentShader, program,
           bufferUploaded, handlerInstalled>>
frame == <<modelViewMatrix, projectionMatrix, orthoArgs, sentModelView,
           sentProjection, clears, uploads, draws>>
harness == <<call, ret>>
vars == <<pc, setup, camera, value, frame, events, harness>>

\* Every variable of the script before its first line has run.
Unstarted ==
    /\ gl = "unset" /\ alerted = FALSE /\ errors = 0
    /\ vertexShader = "unset" /\ fragmentShader = "unset" /\ program = "unset"
    /\ bufferUploaded = FALSE /\ handlerInstalled = FALSE
    /\ zoom = Undefined /\ eye = <<>> /\ at = <<>> /\ up = <<>>
    /\ value = <<>>
    /\ modelViewMatrix = <<>> /\ projectionMatrix = <<>> /\ orthoArgs = <<>>
    /\ sentModelView = <<>> /\ sentProjection = <<>>
    /\ clears = 0 /\ uploads = 0 /\ draws = 0 /\ events = 0

Init ==
    /\ pc = "L3"
    /\ Unstarted
    /\ call = <<>> /\ ret = <<>>

--------------------------------------------------------------------------
(* Initialization, lines 2-140.                                            *)

\* Line 3: the browser hands out a context or null.
GetContext ==
    /\ pc = "L3"
    /\ \E supported \in BOOLEAN : gl' = IF supported THEN "context" ELSE "null"
    /\ pc' = "L5"
    /\ UNCHANGED <<alerted, errors, vertexShader, fragmentShader, program,
                   bufferUploaded, handlerInstalled, camera, value, frame,
                   events, harness>>

\* Lines 5-8 without the throw of line 7.
CheckContextNoThrow ==
    /\ pc = "L5"
    /\ alerted' = (gl = "null")
    /\ pc' = "L59"
    /\ UNCHANGED <<gl, errors, vertexShader, fragmentShader, program,
                   bufferUploaded, handlerInstalled, camera, value, frame,
                   events, harness>>

\* Lines 5-8: alert and throw when there is no context.
CheckContext ==
    /\ pc = "L5"
    /\ IF gl = "null"
       THEN alerted' = TRUE /\ pc' = "halted"
       ELSE alerted' = alerted /\ pc' = "L59"
    /\ UNCHANGED <<gl, errors, vertexShader, fragmentShader, program,
                   bufferUploaded, handlerInstalled, camera, value, frame,
                   events, harness>>

\* Lines 33-43: the shader, or null when COMPILE_STATUS is false.
createShader(compiled) == IF compiled THEN "shader" ELSE "null"

\* Line 59.
CreateVertexShader ==
    /\ pc = "L59"
    /\ \E compiled \in BOOLEAN :
          /\ vertexShader' = createShader(compiled)
          /\ errors' = IF compiled THEN errors ELSE errors + 1
    /\ pc' = "L60"
    /\ UNCHANGED <<gl, alerted, fragmentShader, program, bufferUploaded,
                   handlerInstalled, camera, value, frame, events, harness>>

\* Line 60.
CreateFragmentShader ==
    /\ pc = "L60"
    /\ \E compiled \in BOOLEAN :
          /\ fragmentShader' = createShader(compiled)
          /\ errors' = IF compiled THEN errors ELSE errors + 1
    /\ pc' = "L61"
    /\ UNCHANGED <<gl, alerted, vertexShader, program, bufferUploaded,
                   handlerInstalled, camera, value, frame, events, harness>>

\* Lines 46-56: the program, or null when LINK_STATUS is false.
createProgram(linked) == IF linked THEN "program" ELSE "null"

\* Line 61.  attachShader is handed whatever createShader returned, unchecked.
\* A WebGL binding whose attachShader takes a non-nullable WebGLShader throws
\* a TypeError on null, and nothing catches it; one that takes a nullable one
\* records INVALID_VALUE and returns, and the link then fails for want of a
\* shader.  With both shaders attached the link succeeds or fails.
CreateProgram ==
    /\ pc = "L61"
    /\ IF vertexShader = "null" \/ fragmentShader = "null"
       THEN \E throws \in BOOLEAN :
               IF throws
               THEN /\ pc' = "halted"
                    /\ UNCHANGED <<program, errors>>
               ELSE /\ program' = createProgram(FALSE)
                    /\ errors' = errors + 1
                    /\ pc' = "L62"
       ELSE \E linked \in BOOLEAN :
               /\ program' = createProgram(linked)
               /\ errors' = IF linked THEN errors ELSE errors + 1
               /\ pc' = "L62"
    /\ UNCHANGED <<gl, alerted, vertexShader, fragmentShader, bufferUploaded,
                   handlerInstalled, camera, value, frame, events, harness>>

\* Lines 62-75: useProgram (null is a legal argument), then the vertex buffer.
UploadBuffer ==
    /\ pc = "L62"
    /\ bufferUploaded' = TRUE
    /\ pc' = "L78"
    /\ UNCHANGED <<gl, alerted, errors, vertexShader, fragmentShader, program,
                   handlerInstalled, camera, value, frame, events, harness>>

\* Lines 78-89: attribute and uniform locations of the program, unchecked.
\* getAttribLocation(null, ...) throws or returns -1, as attachShader above.
SetupAttributes ==
    /\ pc = "L78"
    /\ IF program = "null"
       THEN \E throws \in BOOLEAN : pc' = IF throws THEN "halted" ELSE "L137"
       ELSE pc' = "L137"
    /\ UNCHANGED <<setup, camera, value, frame, events, harness>>

\* Lines 137-140 with up along the view axis.
InitCameraUpZ ==
    /\ pc = "L137"
    /\ zoom' = Lit(5)
    /\ eye' = <<Lit(0), Lit(0), zoom'>>
    /\ at' = <<Lit(0), Lit(0), Lit(0)>>
    /\ up' = <<Lit(0), Lit(0), Lit(1)>>
    /\ pc' = "L166"
    /\ UNCHANGED <<setup, value, frame, events, harness>>

\* Lines 137-140.
InitCamera ==
    /\ pc = "L137"
    /\ zoom' = Lit(5)
    /\ eye' = <<Lit(0), Lit(0), zoom'>>
    /\ at' = <<Lit(0), Lit(0), Lit(0)>>
    /\ up' = <<Lit(0), Lit(1), Lit(0)>>
    /\ pc' = "L166"
    /\ UNCHANGED <<setup, value, frame, events, harness>>

\* Line 166.
InstallHandler ==
    /\ pc = "L166"
    /\ handlerInstalled' = TRUE
    /\ pc' = "L173"
    /\ UNCHANGED <<gl, alerted, errors, vertexShader, fragmentShader, program,
                   bufferUploaded, camera, value, frame, events, harness>>

\* Line 173: the initial render.
InitialRender ==
    /\ pc = "L173"
    /\ pc' = "L144"
    /\ UNCHANGED <<setup, camera, value, frame, events, harness>>

--------------------------------------------------------------------------
(* render, lines 143-163.                                                  *)

\* Lines 144-145.
RenderClear ==
    /\ pc = "L144"
    /\ clears' = clears + 1
    /\ pc' = "L148"
    /\ UNCHANGED <<setup, camera, value, modelViewMatrix, projectionMatrix,
                   orthoArgs, sentModelView, sentProjection, uploads, draws,
                   events, harness>>

\* Line 148.
RenderLookAt ==
    /\ pc = "L148"
    /\ modelViewMatrix' = lookAt(eye, at, up)
    /\ pc' = "L151"
    /\ UNCHANGED <<setup, camera, value, projectionMatrix, orthoArgs,
                   sentModelView, sentProjection, clears, uploads, draws,
                   events, harness>>

\* Lines 151-155 with render making zoom positive before it uses it.
RenderOrthoWritesZoom ==
    /\ pc = "L151"
    /\ zoom' = IF zoom.s = -1 THEN Neg(zoom) ELSE zoom
    /\ orthoArgs' = <<Neg(zoom'), zoom', Neg(zoom'), zoom', Lit(-10), Lit(10)>>
    /\ projectionMatrix' = ortho(Neg(zoom'), zoom', Neg(zoom'), zoom', Lit(-10), Lit(10))
    /\ pc' = "L158"
    /\ UNCHANGED <<setup, eye, at, up, value, modelViewMatrix, sentModelView,
                   sentProjection, clears, uploads, draws, events, harness>>

\* Lines 151-155.
RenderOrtho ==
    /\ pc = "L151"
    /\ orthoArgs' = <<Neg(zoom), zoom, Neg(zoom), zoom, Lit(-10), Lit(10)>>
    /\ projectionMatrix' = ortho(Neg(zoom), zoom, Neg(zoom), zoom, Lit(-10), Lit(10))
    /\ pc' = "L158"
    /\ UNCHANGED <<setup, camera, value, modelViewMatrix, sentModelView,
                   sentProjection, clears, uploads, draws, events, harness>>

\* Lines 158-159.
RenderUpload ==
    /\ pc = "L158"
    /\ sentModelView' = modelViewMatrix
    /\ sentProjection' = projectionMatrix
    /\ uploads' = uploads + 2
    /\ pc' = "L162"
    /\ UNCHANGED <<setup, camera, value, modelViewMatrix, projectionMatrix,
                   orthoArgs, clears, draws, events, harness>>

\* Line 162; render returns, and so does the script or handler that called it.
RenderDraw ==
    /\ pc = "L162"
    /\ draws' = draws + 1
    /\ pc' = "idle"
    /\ UNCHANGED <<setup, camera, value, modelViewMatrix, projectionMatrix,
                   orthoArgs, sentModelView, sentProjection, clears, uploads,
                   events, harness>>

--------------------------------------------------------------------------
(* The slider's input handler, lines 166-170.                              *)

\* The handler with line 167 left out: zoom keeps its earlier value.
SliderInputStale ==
    /\ pc \in {"idle", "halted"}
    /\ events < MaxEvents
    /\ events' = events + 1
    /\ \E v \in SliderValues :
          IF handlerInstalled
          THEN /\ value' = v
               /\ zoom' = zoom
               /\ pc' = "L168"
          ELSE UNCHANGED <<value, zoom, pc>>
    /\ UNCHANGED <<setup, eye, at, up, frame, harness>>

\* The browser dispatches an input event while no script runs.  Line 167
\* when the handler is installed; with no handler the event changes nothing.
SliderInput ==
    /\ pc \in {"idle", "halted"}
    /\ events < MaxEvents
    /\ events' = events + 1
    /\ \E v \in SliderValues :
          IF handlerInstalled
          THEN /\ value' = v
               /\ zoom' = parseFloat(v)
               /\ pc' = "L168"
          ELSE UNCHANGED <<value, zoom, pc>>
    /\ UNCHANGED <<setup, eye, at, up, frame, harness>>

\* The handler with line 168 left out.
HandlerSetEyeSkipped ==
    /\ pc = "L168"
    /\ pc' = "L169"
    /\ UNCHANGED <<setup, camera, value, frame, events, harness>>

\* Line 168.
HandlerSetEye ==
    /\ pc = "L168"
    /\ eye' = [eye EXCEPT ![3] = zoom]
    /\ pc' = "L169"
    /\ UNCHANGED <<setup, zoom, at, up, value, frame, events, harness>>

\* Line 169 behind a guard that skips render for a zoom of 0.
HandlerRenderGuarded ==
    /\ pc = "L169"
    /\ pc' = IF IsZero(zoom) THEN "idle" ELSE "L144"
    /\ UNCHANGED <<setup, camera, value, frame, events, harness>>

\* Line 169.
HandlerRender ==
    /\ pc = "L169"
    /\ pc' = "L144"
    /\ UNCHANGED <<setup, camera, value, frame, events, harness>>

Next ==
    \/ GetContext \/ CheckContext
    \/ CreateVertexShader \/ CreateFragmentShader \/ CreateProgram
    \/ UploadBuffer \/ SetupAttributes \/ InitCamera \/ InstallHandler
    \/ InitialRender
    \/ RenderClear \/ RenderLookAt \/ RenderOrtho \/ RenderUpload \/ RenderDraw
    \/ SliderInput \/ HandlerSetEye \/ HandlerRender

Spec == Init /\ [][Next]_vars

--------------------------------------------------------------------------
(* The matrix builders called directly, on arguments drawn from small      *)
(* sets: the specification SpecMath.                                       *)

Vec3(x, y, z) == <<Lit(x), Lit(y), Lit(z)>>

OrthoCalls ==
    { [fn |-> "ortho", args |-> <<l, r, b, t, n, f>>] :
        l \in {Lit(-1), Lit(-5), Lit(0)}, r \in {Lit(1), Lit(5), Lit(0)},
        b \in {Lit(-1), Lit(-5), Lit(0)}, t \in {Lit(1), Lit(5), Lit(0)},
        n \in {Lit(-10)}, f \in {Lit(10), Lit(-10)} }

\* Eye positions whose distance from the origin has a rational square root.
LookAtCalls ==
    { [fn |-> "lookAt", args |-> <<e, Vec3(0, 0, 0), u>>] :
        e \in { Vec3(0, 0, 5), Vec3(0, 0, -3), Vec3(0, 0, 0), Vec3(0, 0, 50),
                Vec3(5, 0, 0), Vec3(0, 2, 0), Vec3(3, 0, 4), Vec3(0, 3, 4),
                Vec3(3, 4, 0) },
        u \in { Vec3(0, 1, 0), Vec3(0, 0, 1), Vec3(1, 0, 0) } }

InitMath ==
    /\ pc = "call"
    /\ Unstarted
    /\ call \in OrthoCalls \cup LookAtCalls
    /\ ret = <<>>

CallOrtho ==
    /\ pc = "call" /\ call.fn = "ortho"
    /\ ret' = ortho(call.args[1], call.args[2], call.args[3], call.args[4],
                    call.args[5], call.args[6])
    /\ pc' = "return"
    /\ UNCHANGED <<setup, camera, value, frame, events, call>>

CallLookAt ==
    /\ pc = "call" /\ call.fn = "lookAt"
    /\ ret' = lookAt(call.args[1], call.args[2], call.args[3])
    /\ pc' = "return"
    /\ UNCHANGED <<setup, camera, value, frame, events, call>>

NextMath == CallOrtho \/ CallLookAt

SpecMath == InitMath /\ [][NextMath]_vars

\* Line 19: a column-major matrix times a homogeneous point.
Transform(m, p) ==
    [i \in 1..4 |->
        Add(Add(Add(Mul(m[i], p[1]), Mul(m[4 + i], p[2])), Mul(m[8 + i], p[3])),
            Mul(m[12 + i], p[4]))]

\* gl_Position after the homogeneous divide.
Clip(m, p) == LET c == Transform(m, p) IN [i \in 1..4 |-> Div(c[i], c[4])]

Vec4(x, y, z, w) == <<Lit(x), Lit(y), Lit(z), Lit(w)>>

\* Two sequences of numbers equal entry by entry under ==.
SeqEq(a, b) == Len(a) = Len(b) /\ \A i \in 1..Len(a) : NumEq(a[i], b[i])

IsZeroVec(v) == \A i \in 1..Len(v) : IsZero(v[i])

\* The upper-left 3x3 of a column-major 4x4.
Rotation(m) == <<m[1], m[2], m[3], m[5], m[6], m[7], m[9], m[10], m[11]>>

Translation(m) == <<m[13], m[14], m[15], m[16]>>

Diag(x, y, z) ==
    <<Lit(x), Lit(0), Lit(0), Lit(0), Lit(y), Lit(0), Lit(0), Lit(0), Lit(z)>>

--------------------------------------------------------------------------
(* Properties.                                                             *)

RenderPcs == {"L144", "L148", "L151", "L158", "L162"}

\* A zoom whose square neither overflows nor underflows to zero.
InRange(z) ==
    /\ IsFinite(z) /\ ~IsZero(z)
    /\ IsFinite(Mul(z, z)) /\ ~IsZero(Mul(z, z))

NonFinite(m) == \E i \in 1..Len(m) : ~IsFinite(m[i])

\* C1: a shader that failed to compile or a program that failed to link
\* aborts initialization before the input handler is installed and before
\* render runs: with a null shader or program there is no handler and there
\* has been no clear, no uniform upload and no draw.
Claim_C1 ==
    (vertexShader = "null" \/ fragmentShader = "null" \/ program = "null")
        => (~handlerInstalled /\ clears = 0 /\ uploads = 0 /\ draws = 0)

\* C2: with no graphics context the user is alerted and the script halts at
\* line 7: no shader is created, no buffer uploaded, no handler installed and
\* render is never called, whatever slider events follow.
Thm_C2 ==
    (gl = "null" /\ pc # "L5")
        => /\ alerted /\ pc = "halted"
           /\ vertexShader = "unset" /\ fragmentShader = "unset"
           /\ program = "unset" /\ errors = 0
           /\ ~bufferUploaded /\ ~handlerInstalled
           /\ zoom = Undefined /\ value = <<>>
           /\ clears = 0 /\ uploads = 0 /\ draws = 0

Wit_C2 == gl = "null" /\ pc = "halted" /\ alerted /\ events >= 2

OrthoUnit == [fn |-> "ortho",
              args |-> <<Lit(-1), Lit(1), Lit(-1), Lit(1), Lit(-10), Lit(10)>>]

\* C3, as amended: ortho(-1,1,-1,1,-10,10) followed by the homogeneous divide
\* maps (0,0,0,1) to (0,0,0,1), (1,1,10,1) to (1,1,-1,1) and (1,1,-10,1) to
\* (1,1,1,1): the z axis is flipped.
Thm_C3 ==
    (call = OrthoUnit /\ pc = "return")
        => /\ SeqEq(Clip(ret, Vec4(0, 0, 0, 1)), Vec4(0, 0, 0, 1))
           /\ SeqEq(Clip(ret, Vec4(1, 1, 10, 1)), Vec4(1, 1, -1, 1))
           /\ SeqEq(Clip(ret, Vec4(1, 1, -10, 1)), Vec4(1, 1, 1, 1))

Wit_C3 ==
    /\ call = OrthoUnit /\ pc = "return" /\ Len(ret) = 16
    /\ SeqEq(Clip(ret, Vec4(1, 1, 10, 1)), Vec4(1, 1, -1, 1))

\* C3 as stated: ortho(-1,1,-1,1,-10,10) followed by the homogeneous divide
\* maps (0,0,0,1) to (0,0,0,1) and (1,1,10,1) to (1,1,1,1).
Orig_C3 ==
    (call = OrthoUnit /\ pc = "return")
        => /\ SeqEq(Clip(ret, Vec4(0, 0, 0, 1)), Vec4(0, 0, 0, 1))
           /\ SeqEq(Clip(ret, Vec4(1, 1, 10, 1)), Vec4(1, 1, 1, 1))

LookAtInitial == [fn |-> "lookAt",
                  args |-> <<Vec3(0, 0, 5), Vec3(0, 0, 0), Vec3(0, 1, 0)>>]

\* C4: lookAt((0,0,5), (0,0,0), (0,1,0)) returns 16 entries whose upper-left
\* 3x3 is the identity and whose last four entries are (0,0,-5,1).
Thm_C4 ==
    (call = LookAtInitial /\ pc = "return")
        => /\ Len(ret) = 16
           /\ SeqEq(Rotation(ret), Diag(1, 1, 1))
           /\ SeqEq(Translation(ret), Vec4(0, 0, -5, 1))

Wit_C4 ==
    /\ call = LookAtInitial /\ pc = "return"
    /\ SeqEq(Translation(ret), Vec4(0, 0, -5, 1))

\* C5: a slider event that sets zoom to 0 is not guarded: render still runs,
\* the projection matrix it builds has infinite scale entries and NaN
\* translation entries (division by right-left = 0 and top-bottom = 0), and
\* that matrix is uploaded and the draw is issued.
Thm_C5 ==
    (handlerInstalled /\ IsZero(zoom))
        => /\ pc # "halted"
           /\ pc \in {"L158", "L162", "idle"}
                => /\ NonFinite(projectionMatrix)
                   /\ projectionMatrix[1].k = "inf" /\ projectionMatrix[6].k = "inf"
                   /\ IsNaN(projectionMatrix[13]) /\ IsNaN(projectionMatrix[14])
           /\ pc \in {"L162", "idle"}
                => sentProjection = projectionMatrix /\ uploads = 2 * (events + 1)
           /\ pc = "idle" => draws = events + 1

Wit_C5 ==
    /\ pc = "idle" /\ IsZero(zoom) /\ events >= 1
    /\ NonFinite(sentProjection) /\ draws = events + 1

\* C6, as amended: whenever render runs with a zoom that is a nonzero number,
\* cross(up, subtract(eye, at)) is not the zero vector, and when zoom's square
\* is moreover in range the cross product inside lookAt is (1,0,0) or
\* (-1,0,0); with zoom 0 it is the zero vector.
Thm_C6 ==
    (pc \in RenderPcs /\ ~IsNaN(zoom))
        => /\ ~IsZero(zoom) => ~IsZeroVec(cross(up, subtract(eye, at)))
           /\ InRange(zoom)
                => \/ SeqEq(cross(up, normalize(subtract(eye, at))), Vec3(1, 0, 0))
                   \/ SeqEq(cross(up, normalize(subtract(eye, at))), Vec3(-1, 0, 0))
           /\ IsZero(zoom) => IsZeroVec(cross(up, subtract(eye, at)))

Wit_C6 ==
    /\ pc = "L148" /\ events >= 1 /\ InRange(zoom) /\ zoom.s = -1
    /\ ~IsZeroVec(cross(up, subtract(eye, at)))

\* C6 as stated: whenever render runs after slider events with numeric
\* values, cross(up, subtract(eye, at)) is not the zero vector.
Orig_C6 ==
    (pc \in RenderPcs /\ ~IsNaN(zoom))
        => ~IsZeroVec(cross(up, subtract(eye, at)))

Thm_C9 ==
    [][ /\ pc \in RenderPcs => camera' = camera
        /\ camera' # camera => pc \in {"L137", "idle", "L168"}
        /\ <<at', up'>> # <<at, up>> => pc = "L137"
        /\ pc = "L162"
             => /\ draws' = draws + 1
                /\ sentModelView' = lookAt(eye', at', up')
                /\ sentProjection' = ortho(Neg(zoom'), zoom', Neg(zoom'), zoom',
                                           Lit(-10), Lit(10)) ]_vars

Wit_C9 ==
    /\ pc = "idle" /\ events >= 1 /\ zoom # Lit(5)
    /\ sentModelView = lookAt(eye, at, up)
    /\ sentProjection = ortho(Neg(zoom), zoom, Neg(zoom), zoom, Lit(-10), Lit(10))

\* C10: whenever render starts, eye is (0,0,zoom), at is (0,0,0) and up is
\* (0,1,0).
Thm_C10 ==
    pc = "L144"
        => /\ eye = <<Lit(0), Lit(0), zoom>>
           /\ ~IsNaN(zoom) => NumEq(eye[3], zoom)
           /\ at = Vec3(0, 0, 0) /\ up = Vec3(0, 1, 0)

Wit_C10 == pc = "L144" /\ events >= 2 /\ ~IsNaN(zoom) /\ zoom # Lit(5) /\ eye[3] = zoom

==========================================================================
